---- MODULE Spec2Model ----
(***************************************************************************)
(* A model of the grid layout engine of grid-layout-ratatui (src/lib.rs):  *)
(* the weighted space allocator layout_grid_dim, the occlusion map built   *)
(* by GridLayout::compute_layout, the border and corner renderers, and the *)
(* cache (prior_area, dirty_bit) that Widget::render consults.             *)
(*                                                                         *)
(* Three specifications share the module:                                  *)
(*   Spec      the GridLayout object driven by set_columns, set_rows,      *)
(*             add_widget and render;                                      *)
(*   SpecDim   layout_grid_dim as a pure function over small inputs;       *)
(*   SpecWide  layout_grid_dim over inputs at the ends of the u16 range.   *)
(*                                                                         *)
(* Vectors are sequences, so indices are 1-based here where the source is  *)
(* 0-based; the order of indices, which breaks ties in the heap, is kept.  *)
(* Arithmetic that the source does in i32 or u16 is checked: an operation  *)
(* whose result leaves the type's range ends the call with a panic, as the *)
(* overflow checks of a debug build do.                                    *)
(***************************************************************************)
EXTENDS Integers, Sequences, FiniteSets, TLC

VARIABLES
    \* ---- GridLayout (lib.rs 26-39) ----
    columns, rows, widget_locations,
    edge_layout_x, edge_layout_y, grid_points,
    prior_area, dirty_bit,
    \* ---- the last operation on the GridLayout and what it did ----
    lastOp, outcome,
    \* ---- one call of layout_grid_dim (SpecDim, SpecWide) ----
    dims, start, length, pc, res, prevTarget, prevWeight, bumped

gridVars == <<columns, rows, widget_locations, edge_layout_x, edge_layout_y,
              grid_points, prior_area, dirty_bit, lastOp, outcome>>
dimVars == <<dims, start, length, pc, res, prevTarget, prevWeight, bumped>>
vars == <<gridVars, dimVars>>

----------------------------------------------------------------------------
(* Integer types of the source *)

I32Max == 2147483647
U16Max == 65535

(* Bounds of the model *)
MaxDims == 2
MaxMin == 2
MaxWeight == 2
MaxLength == 9
MaxWidgets == 2

----------------------------------------------------------------------------
(* Helpers *)

Abs(n) == IF n < 0 THEN -n ELSE n

Max2(a, b) == IF a >= b THEN a ELSE b

Min2(a, b) == IF a <= b THEN a ELSE b

RECURSIVE SumSeq(_)
SumSeq(s) == IF s = <<>> THEN 0 ELSE Head(s) + SumSeq(Tail(s))

\* a * b is representable in i32; decided without forming the product
MulFitsI32(a, b) ==
    \/ a = 0
    \/ b = 0
    \/ /\ (a > 0) = (b > 0)
       /\ Abs(a) <= I32Max \div Abs(b)
    \/ /\ (a > 0) # (b > 0)
       /\ \/ Abs(a) <= I32Max \div Abs(b)
          \/ /\ Abs(a) = (I32Max \div Abs(b)) + 1
             /\ I32Max % Abs(b) = Abs(b) - 1

\* a - b is representable in i32; decided without forming the difference
SubFitsI32(a, b) ==
    IF b >= 0 THEN a >= ((-I32Max) - 1) + b
              ELSE a <= I32Max + b

\* `as u16` on an i32
AsU16(n) == n % (U16Max + 1)

----------------------------------------------------------------------------
(* GridDimension and Rect *)

GridDimension(m, w) == [min |-> m, weight |-> w]

Rect(x, y, w, h) == [x |-> x, y |-> y, width |-> w, height |-> h]

RectZero == Rect(0, 0, 0, 0)

\* Rect::right and Rect::bottom saturate at u16::MAX
Right(r) == Min2(r.x + r.width, U16Max)

Bottom(r) == Min2(r.y + r.height, U16Max)

\* Rect::intersection; the width and height are saturating subtractions
Intersection(a, b) ==
    LET x1 == Max2(a.x, b.x)
        y1 == Max2(a.y, b.y)
        x2 == Min2(Right(a), Right(b))
        y2 == Min2(Bottom(a), Bottom(b))
    IN  Rect(x1, y1, Max2(x2 - x1, 0), Max2(y2 - y1, 0))

----------------------------------------------------------------------------
(* layout_grid_dim, lib.rs 46-98 *)

\* sizes after the first loop: 1 for the border plus the minimum
InitialSizes(ds) == [i \in 1..Len(ds) |-> 1 + ds[i].min]

TotalWeight(ds) == SumSeq([i \in 1..Len(ds) |-> ds[i].weight])

\* allocate before the distribution loop
InitialAllocate(ds, len) == len - SumSeq(InitialSizes(ds)) - 1

\* the three i32 operations of line 65 stay in range for dimension i
InitialWeightFits(ds, i, allocate, total_weight) ==
    /\ MulFitsI32(ds[i].weight, allocate)
    /\ MulFitsI32(total_weight, ds[i].min)
    /\ SubFitsI32(ds[i].weight * allocate, total_weight * ds[i].min)

\* the weight pushed for dimension i, line 65
InitialWeight(ds, i, allocate, total_weight) ==
    ds[i].weight * allocate - (total_weight * ds[i].min)

\* derive(Ord) on WeightItem: by weight, then by index
ItemLess(a, b) ==
    \/ a.weight < b.weight
    \/ a.weight = b.weight /\ a.index < b.index

\* BinaryHeap::pop on a non-empty max-heap
PopBiggest(heap) ==
    CHOOSE b \in heap : \A o \in heap \ {b} : ItemLess(o, b)

AmountPlusOne(weight, total_weight) == (weight \div total_weight) + 1

\* line 77; both operands are positive there, so truncation is the floor
Amount(weight, total_weight) == weight \div total_weight

\* One turn of the while loop of lines 69-88 on the item just popped:
\* lines 75-87, then the loop again. Status "overflow_i32" is an i32
\* operation out of range.
RECURSIVE Distribute(_, _, _, _), Allocate(_, _, _, _, _)
Allocate(sizes, allocate, rest, biggest, total_weight) ==
    IF biggest.weight > total_weight
    THEN Distribute(
            [sizes EXCEPT ![biggest.index] =
                @ + Amount(biggest.weight, total_weight)],
            allocate - Amount(biggest.weight, total_weight),
            rest \cup {[weight |-> biggest.weight
                                    - total_weight * Amount(biggest.weight, total_weight),
                        index |-> biggest.index]},
            total_weight)
    ELSE IF ~SubFitsI32(biggest.weight, total_weight)
    THEN [sizes |-> sizes, allocate |-> allocate, status |-> "overflow_i32"]
    ELSE Distribute(
            [sizes EXCEPT ![biggest.index] = @ + 1],
            allocate - 1,
            rest \cup {[weight |-> biggest.weight - total_weight,
                        index |-> biggest.index]},
            total_weight)

\* the while loop of lines 69-88; status "return" is the early return of
\* line 71 on an empty heap
Distribute(sizes, allocate, heap, total_weight) ==
    IF allocate <= 0
    THEN [sizes |-> sizes, allocate |-> allocate, status |-> "ok"]
    ELSE IF heap = {}
    THEN [sizes |-> sizes, allocate |-> allocate, status |-> "return"]
    ELSE Allocate(sizes, allocate, heap \ {PopBiggest(heap)}, PopBiggest(heap),
                  total_weight)

\* lines 91-97: the running coordinate acc, a u16; sizes are cast with `as u16`
Boundaries(sizes, st) ==
    [i \in 1..(Len(sizes) + 1) |->
        st + SumSeq([k \in 1..(i - 1) |-> AsU16(sizes[k])])]

\* lines 89-97 on what the loop left in d. status is "ok", "early_return"
\* (line 71: target was cleared and nothing pushed), "overflow_i32" (a panic
\* in the i32 arithmetic of lines 65-83) or "overflow_u16" (a panic in
\* acc += of line 94). After a panic target is reported empty.
Accumulate(d, st) ==
    IF d.status = "return"
    THEN [target |-> <<>>, sizes |-> d.sizes, allocate |-> d.allocate,
          status |-> "early_return"]
    ELSE IF d.status = "overflow_i32"
    THEN [target |-> <<>>, sizes |-> d.sizes, allocate |-> d.allocate,
          status |-> "overflow_i32"]
    ELSE IF st + SumSeq([k \in 1..Len(d.sizes) |-> AsU16(d.sizes[k])]) > U16Max
    THEN [target |-> <<>>, sizes |-> d.sizes, allocate |-> d.allocate,
          status |-> "overflow_u16"]
    ELSE [target |-> Boundaries(d.sizes, st), sizes |-> d.sizes,
          allocate |-> d.allocate, status |-> "ok"]

\* lines 56-97, given sizes, allocate and total_weight of lines 48-56
LayoutFrom(ds, st, sizes, allocate, total_weight) ==
    IF \E i \in 1..Len(ds) : ~InitialWeightFits(ds, i, allocate, total_weight)
    THEN [target |-> <<>>, sizes |-> sizes, allocate |-> allocate,
          status |-> "overflow_i32"]
    ELSE Accumulate(
            Distribute(sizes, allocate,
                       {[weight |-> InitialWeight(ds, i, allocate, total_weight),
                         index |-> i] : i \in 1..Len(ds)},
                       total_weight),
            st)

\* The whole function; target is what the caller's vector holds afterwards.
LayoutGridDim(ds, st, len) ==
    LayoutFrom(ds, st, InitialSizes(ds), InitialAllocate(ds, len), TotalWeight(ds))

----------------------------------------------------------------------------
(* corner_symbol, lib.rs 100-119; glyphs are named as in ratatui's line set, *)
(* the four half lines and the blank by what they show                       *)

corner_symbol(top, right, bottom, left) ==
    CASE  top /\  right /\  bottom /\  left -> "cross"
      []  top /\  right /\  bottom /\ ~left -> "vertical_right"
      []  top /\  right /\ ~bottom /\  left -> "horizontal_up"
      []  top /\  right /\ ~bottom /\ ~left -> "bottom_left"
      []  top /\ ~right /\  bottom /\  left -> "vertical_left"
      []  top /\ ~right /\  bottom /\ ~left -> "vertical"
      []  top /\ ~right /\ ~bottom /\  left -> "bottom_right"
      []  top /\ ~right /\ ~bottom /\ ~left -> "half_up"
      [] ~top /\  right /\  bottom /\  left -> "horizontal_down"
      [] ~top /\  right /\  bottom /\ ~left -> "top_left"
      [] ~top /\  right /\ ~bottom /\  left -> "horizontal"
      [] ~top /\  right /\ ~bottom /\ ~left -> "half_right"
      [] ~top /\ ~right /\  bottom /\  left -> "top_right"
      [] ~top /\ ~right /\  bottom /\ ~left -> "half_down"
      [] ~top /\ ~right /\ ~bottom /\  left -> "half_left"
      [] ~top /\ ~right /\ ~bottom /\ ~left -> "blank"

----------------------------------------------------------------------------
(* GridLayout::compute_layout, lib.rs 122-159 *)

\* lines 144-157 for one widget: the grid points (0-based, as in the source)
\* whose visible flag the two loops clear
OccludedBy(location, lenx, leny) ==
    LET loc == Intersection(location, Rect(0, 0, lenx, leny))
    IN  IF Right(loc) <= 1 \/ Bottom(loc) <= 1
        THEN {}
        ELSE {<<i, j>> : i \in (loc.x + 1)..(Right(loc) - 2),
                         j \in (loc.y + 1)..(Bottom(loc) - 2)}

\* lines 141-158: every point visible, then each widget clears its points
OcclusionGrid(lenx, leny, widgets) ==
    [i \in 1..lenx |-> [j \in 1..leny |->
        [visible |-> ~\E k \in 1..Len(widgets) :
                        <<i - 1, j - 1>> \in OccludedBy(widgets[k], lenx, leny)]]]

\* an index of lines 153-155 that is no grid point, or location.x + 1 or
\* location.y + 1 leaving u16
OcclusionPanics(lenx, leny, widgets) ==
    \E k \in 1..Len(widgets) :
        LET loc == Intersection(widgets[k], Rect(0, 0, lenx, leny))
        IN  \/ \E p \in OccludedBy(widgets[k], lenx, leny) :
                  p[1] >= lenx \/ p[2] >= leny
            \/ /\ Right(loc) > 1
               /\ Bottom(loc) > 1
               /\ (loc.x = U16Max \/ loc.y = U16Max)

\* lines 137-158 on the two boundary lists lx and ly as layout_grid_dim
\* left them. A panic in the first call ends the function there.
OccludeFrom(lx, ly, widgets) ==
    IF lx.status \in {"overflow_i32", "overflow_u16"}
    THEN [edge_layout_x |-> lx.target, edge_layout_y |-> <<>>,
          grid_points |-> <<>>, status |-> "panic"]
    ELSE IF ly.status \in {"overflow_i32", "overflow_u16"}
    THEN [edge_layout_x |-> lx.target, edge_layout_y |-> ly.target,
          grid_points |-> <<>>, status |-> "panic"]
    ELSE [edge_layout_x |-> lx.target, edge_layout_y |-> ly.target,
          grid_points |-> OcclusionGrid(Len(lx.target), Len(ly.target), widgets),
          status |-> IF OcclusionPanics(Len(lx.target), Len(ly.target), widgets)
                     THEN "panic" ELSE "ok"]

\* The whole of compute_layout(area) bar the two Cell::set calls. Line 126
\* hands self.rows to the x axis and line 132 self.columns to the y axis.
ComputeLayout(cols, rws, widgets, area) ==
    OccludeFrom(LayoutGridDim(rws, area.x, area.width),
                LayoutGridDim(cols, area.y, area.height),
                widgets)

----------------------------------------------------------------------------
(* draw_edges and draw_corners, lib.rs 161-206 *)

\* The buffer handed to render; Buffer::cell_mut gives None outside its area
\* and the write is skipped. The test renders into Buffer::empty(0, 0, 20, 20).
BufferArea == Rect(0, 0, 20, 20)

InBuffer(x, y) ==
    /\ x >= BufferArea.x
    /\ x < Right(BufferArea)
    /\ y >= BufferArea.y
    /\ y < Bottom(BufferArea)

\* draw_edges panics: line 166 or line 178 subtracts 1 from a length of 0
\* (usize), or line 170 or 181 adds 1 to a coordinate of u16::MAX
DrawEdgesPanics(ex, ey, gp) ==
    \/ Len(ex) = 0
    \/ Len(ey) = 0
    \/ \E i \in 1..(Len(ex) - 1), j \in 1..Len(ey) :
          gp[i][j].visible /\ gp[i + 1][j].visible /\ ex[i] = U16Max
    \/ \E i \in 1..Len(ex), j \in 1..(Len(ey) - 1) :
          gp[i][j].visible /\ gp[i][j + 1].visible /\ ey[j] = U16Max

\* lines 166-175: the cells of the horizontal segments
HorizontalCells(ex, ey, gp) ==
    UNION {IF gp[i][j].visible /\ gp[i + 1][j].visible
           THEN {<<x, ey[j]>> : x \in (ex[i] + 1)..(ex[i + 1] - 1)}
           ELSE {} : i \in 1..(Len(ex) - 1), j \in 1..Len(ey)}

\* lines 177-186: the cells of the vertical segments
VerticalCells(ex, ey, gp) ==
    UNION {IF gp[i][j].visible /\ gp[i][j + 1].visible
           THEN {<<ex[i], y>> : y \in (ey[j] + 1)..(ey[j + 1] - 1)}
           ELSE {} : i \in 1..Len(ex), j \in 1..(Len(ey) - 1)}

\* lines 193-205: the glyph of each visible grid point, at its cell
CornerWrites(ex, ey, gp) ==
    {<<ex[i], ey[j],
       corner_symbol(j > 1 /\ gp[i][j - 1].visible,
                     i < Len(ex) /\ gp[i + 1][j].visible,
                     j < Len(ey) /\ gp[i][j + 1].visible,
                     i > 1 /\ gp[i - 1][j].visible)>> :
        <<i, j>> \in {q \in (1..Len(ex)) \X (1..Len(ey)) : gp[q[1]][q[2]].visible}}

\* the writes of the three loops merged: a later write replaces an earlier
\* one, and the loops run horizontal, vertical, corners
Overwrite(horizontal, vertical, corners) ==
    corners
      \cup {<<c[1], c[2], "vertical">> :
              c \in vertical \ {<<w[1], w[2]>> : w \in corners}}
      \cup {<<c[1], c[2], "horizontal">> :
              c \in horizontal \ (vertical \cup {<<w[1], w[2]>> : w \in corners})}

\* What render leaves in the buffer: <<x, y, glyph>> for every cell written.
\* The boundary lists are strictly increasing, so no two corners share a cell.
Draw(ex, ey, gp) ==
    Overwrite({c \in HorizontalCells(ex, ey, gp) : InBuffer(c[1], c[2])},
              {c \in VerticalCells(ex, ey, gp) : InBuffer(c[1], c[2])},
              {w \in CornerWrites(ex, ey, gp) : InBuffer(w[1], w[2])})

----------------------------------------------------------------------------
(* State of the GridLayout that the specifications of layout_grid_dim leave *)
(* alone, and the reverse                                                   *)

\* outcome describes the last call of render: the region it was given, whether
\* it ran compute_layout, how it ended ("ok" or "panic") and what it wrote
NoOutcome ==
    [area |-> RectZero, computed |-> FALSE, status |-> "none", written |-> {}]

\* GridLayout::new, lib.rs 218-229
New ==
    /\ columns = <<>>
    /\ rows = <<>>
    /\ widget_locations = <<>>
    /\ edge_layout_x = <<>>
    /\ edge_layout_y = <<>>
    /\ grid_points = <<>>
    /\ prior_area = RectZero
    /\ dirty_bit = TRUE
    /\ lastOp = "new"
    /\ outcome = NoOutcome

NoResult == [target |-> <<>>, sizes |-> <<>>, allocate |-> 0, status |-> "none"]

NoCall ==
    /\ dims = <<>>
    /\ start = 0
    /\ length = 0
    /\ pc = "idle"
    /\ res = NoResult
    /\ prevTarget = <<>>
    /\ prevWeight = 0
    /\ bumped = 0

----------------------------------------------------------------------------
(* Spec: the GridLayout and its operations *)

\* the dimension lists of tests::render_test, and the list of a new layout
GridLists ==
    {<<>>,
     <<GridDimension(0, 3), GridDimension(2, 1)>>,
     <<GridDimension(0, 1), GridDimension(0, 1),
       GridDimension(0, 1), GridDimension(0, 1)>>}

\* the region of tests::render_test, the empty region, and a region smaller
\* than what either list of the test reserves
Areas == {Rect(0, 0, 20, 20), RectZero, Rect(1, 2, 4, 3)}

\* spans over the four by two cells of the test's grid, over more than the
\* grid, and outside of it
WidgetRects == {Rect(0, 0, 4, 2), Rect(0, 0, 9, 9), Rect(7, 7, 1, 1)}

Rendered == lastOp \in {"render", "render_again"}

\* a panic ends the program: no operation follows it
Running == outcome.status # "panic"

Init == New /\ NoCall

\* lib.rs 207-210
SetColumns(c) ==
    /\ Running
    /\ columns' = c
    /\ dirty_bit' = TRUE
    /\ lastOp' = "set_columns"
    /\ outcome' = NoOutcome
    /\ UNCHANGED <<rows, widget_locations, edge_layout_x, edge_layout_y,
                   grid_points, prior_area>>
    /\ UNCHANGED dimVars

\* lib.rs 211-214
SetRows(r) ==
    /\ Running
    /\ rows' = r
    /\ dirty_bit' = TRUE
    /\ lastOp' = "set_rows"
    /\ outcome' = NoOutcome
    /\ UNCHANGED <<columns, widget_locations, edge_layout_x, edge_layout_y,
                   grid_points, prior_area>>
    /\ UNCHANGED dimVars

\* lib.rs 215-217: the span is pushed and dirty_bit is left as it is
AddWidget(place) ==
    /\ Running
    /\ Len(widget_locations) < MaxWidgets
    /\ widget_locations' = Append(widget_locations, place)
    /\ lastOp' = "add_widget"
    /\ outcome' = NoOutcome
    /\ UNCHANGED <<columns, rows, edge_layout_x, edge_layout_y, grid_points,
                   prior_area, dirty_bit>>
    /\ UNCHANGED dimVars

NeedsComputeAlways(dirty, area, prior) == dirty \/ area = prior \/ area # prior

\* the condition of line 237
NeedsCompute(dirty, area, prior) == dirty \/ area # prior

\* Widget::render, lib.rs 233-242: compute_layout when needed, then
\* draw_edges and draw_corners on what the cache holds
Render(area) ==
    /\ Running
    /\ \E compute \in {NeedsCompute(dirty_bit, area, prior_area)} :
       \E c \in {IF compute
                 THEN ComputeLayout(columns, rows, widget_locations, area)
                 ELSE [edge_layout_x |-> edge_layout_x,
                       edge_layout_y |-> edge_layout_y,
                       grid_points |-> grid_points, status |-> "ok"]} :
       \E panics \in {c.status = "panic"
                        \/ DrawEdgesPanics(c.edge_layout_x, c.edge_layout_y,
                                           c.grid_points)} :
           /\ edge_layout_x' = c.edge_layout_x
           /\ edge_layout_y' = c.edge_layout_y
           /\ grid_points' = c.grid_points
           /\ dirty_bit' = IF compute THEN FALSE ELSE dirty_bit
           /\ prior_area' = IF compute THEN area ELSE prior_area
           /\ outcome' = [area |-> area,
                          computed |-> compute,
                          status |-> IF panics THEN "panic" ELSE "ok",
                          written |-> IF panics THEN {}
                                      ELSE Draw(c.edge_layout_x, c.edge_layout_y,
                                                c.grid_points)]
    /\ lastOp' = IF Rendered THEN "render_again" ELSE "render"
    /\ UNCHANGED <<columns, rows, widget_locations>>
    /\ UNCHANGED dimVars

Next ==
    \/ \E c \in GridLists : SetColumns(c)
    \/ \E r \in GridLists : SetRows(r)
    \/ \E place \in WidgetRects : AddWidget(place)
    \/ \E area \in Areas : Render(area)

Spec == Init /\ [][Next]_vars

----------------------------------------------------------------------------
(* SpecDim: layout_grid_dim over small inputs *)

DimValues == {GridDimension(m, w) : m \in 0..MaxMin, w \in 0..MaxWeight}

DimLists == UNION {[1..n -> DimValues] : n \in 0..MaxDims}

Starts == {0, 3}

InitDim ==
    /\ New
    /\ dims \in DimLists
    /\ start \in Starts
    /\ length \in 0..MaxLength
    /\ pc = "call"
    /\ res = NoResult
    /\ prevTarget = <<>>
    /\ prevWeight = 0
    /\ bumped = 0

\* the caller runs layout_grid_dim(dims, target, start, length)
Call ==
    /\ pc = "call"
    /\ res' = LayoutGridDim(dims, start, length)
    /\ pc' = "done"
    /\ UNCHANGED <<dims, start, length, prevTarget, prevWeight, bumped>>
    /\ UNCHANGED gridVars

\* the caller raises the weight of one dimension by one and keeps the rest,
\* to run the function again on the new list
IncreaseWeight(i) ==
    /\ pc = "done"
    /\ bumped = 0
    /\ i \in 1..Len(dims)
    /\ dims[i].weight < MaxWeight
    /\ dims' = [dims EXCEPT ![i].weight = @ + 1]
    /\ prevTarget' = res.target
    /\ prevWeight' = TotalWeight(dims)
    /\ bumped' = i
    /\ pc' = "call"
    /\ res' = NoResult
    /\ UNCHANGED <<start, length>>
    /\ UNCHANGED gridVars

NextDim ==
    \/ Call
    \/ \E i \in 1..MaxDims : IncreaseWeight(i)

SpecDim == InitDim /\ [][NextDim]_vars

----------------------------------------------------------------------------
(* SpecWide: layout_grid_dim at the ends of the u16 range *)

WideDimValues ==
    {GridDimension(m, w) : m \in {0, U16Max}, w \in {1, U16Max}}

WideDimLists == UNION {[1..n -> WideDimValues] : n \in 0..2}

WideCoords == {0, 1, U16Max}

InitWide ==
    /\ New
    /\ dims \in WideDimLists
    /\ start \in WideCoords
    /\ length \in WideCoords
    /\ pc = "call"
    /\ res = NoResult
    /\ prevTarget = <<>>
    /\ prevWeight = 0
    /\ bumped = 0

NextWide == Call

SpecWide == InitWide /\ [][NextWide]_vars

----------------------------------------------------------------------------
(* Properties of layout_grid_dim, stated on a finished call *)

\* what step 1 of the allocator reserves: 1 + min per dimension and 1 for
\* the trailing border
Taken(ds) == SumSeq(InitialSizes(ds)) + 1

\* the size a boundary list gives dimension i
SizeOf(t, i) == t[i + 1] - t[i]

\* the units dimension i received beyond its reserved 1 + min
ExtraOf(i) == SizeOf(res.target, i) - (1 + dims[i].min)

Conserves ==
    /\ res.status = "ok"
    /\ res.allocate = 0
    /\ SumSeq([i \in 1..Len(dims) |-> ExtraOf(i)]) = length - Taken(dims)

\* C1 as stated: for every dimension list and every length >= taken, the
\* call ends with allocate = 0 and the extra units sum to length - taken.
C1_ConservationAnyList ==
    (pc = "done" /\ length >= Taken(dims)) => Conserves

\* C1 amended: for every non-empty dimension list and every length >= taken,
\* the call ends with allocate = 0 and the extra units handed out beyond the
\* reserved 1 + min sum to exactly length - taken.
C1_Conservation ==
    (pc = "done" /\ Len(dims) > 0 /\ length >= Taken(dims)) => Conserves

C1_Witness ==
    /\ pc = "done"
    /\ Len(dims) >= 2
    /\ length >= Taken(dims) + 3
    /\ TotalWeight(dims) > 0
    /\ \A i \in 1..Len(dims) : ExtraOf(i) > 0
    /\ Conserves

\* |extra - remaining * weight / total_weight| < 1, cleared of the division
WithinOneOfIdeal(i) ==
    Abs(ExtraOf(i) * TotalWeight(dims) - (length - Taken(dims)) * dims[i].weight)
        < TotalWeight(dims)

\* C2: whenever remaining > 0 and total_weight > 0, every dimension's extra
\* allocation is less than 1 unit from its ideal share
\* remaining * weight / total_weight, whatever the minimum sizes.
C2_Proportional ==
    (pc = "done" /\ length > Taken(dims) /\ TotalWeight(dims) > 0)
        => \A i \in 1..Len(dims) : WithinOneOfIdeal(i)

\* C7: the boundary list of a finished call has count(dimensions) + 1
\* entries, for every list, start and length.
C7_BoundaryCount ==
    pc = "done" => Len(res.target) = Len(dims) + 1

\* C9: raising one dimension's weight, everything else fixed, never lowers
\* that dimension's size.
C9_Monotone ==
    (pc = "done" /\ bumped # 0)
        => SizeOf(res.target, bumped) >= SizeOf(prevTarget, bumped)

\* C10: over u16 inputs no i32 operation of the weight and allocation
\* arithmetic leaves the i32 range, and the running boundary coordinate stays
\* in u16 whenever start + length does.
C10_ArithmeticInRange ==
    pc = "done" =>
        /\ res.status # "overflow_i32"
        /\ start + length <= U16Max => res.status # "overflow_u16"

----------------------------------------------------------------------------
(* Properties of the GridLayout *)

\* the span clipped to the cells of the grid: one cell fewer than boundaries
\* on each axis
ClipToCells(span) ==
    Intersection(span, Rect(0, 0, Max2(Len(edge_layout_x) - 1, 0),
                                  Max2(Len(edge_layout_y) - 1, 0)))

\* grid point (i, j), 0-based, lies strictly inside the clipped span
StrictlyInside(span, i, j) ==
    /\ span.width > 0
    /\ span.height > 0
    /\ span.x < i
    /\ i < span.x + span.width
    /\ span.y < j
    /\ j < span.y + span.height

\* C3: after compute_layout an intersection point is not visible if and only
\* if it lies strictly inside at least one registered non-degenerate span
\* after clipping, the span given in grid cells.
C3_Occlusion ==
    (Rendered /\ outcome.computed /\ outcome.status = "ok") =>
        \A i \in 1..Len(edge_layout_x), j \in 1..Len(edge_layout_y) :
            (~grid_points[i][j].visible) <=>
                \E k \in 1..Len(widget_locations) :
                    StrictlyInside(ClipToCells(widget_locations[k]), i - 1, j - 1)

\* C4: after set_columns, set_rows or add_widget the dirty flag is set.
C4_ChangeMarksDirty ==
    lastOp \in {"set_columns", "set_rows", "add_widget"} => dirty_bit

\* C5: render runs compute_layout exactly when the dirty flag is set or the
\* region differs from prior_area; after it the dirty flag is clear and
\* prior_area is the region; a render that does not compute leaves the cache
\* as it was; and a render that follows a render of the same region does not
\* compute and writes the same glyphs to the same cells.
C5_RenderCaching ==
    [][Rendered' =>
        /\ outcome'.computed <=> (dirty_bit \/ outcome'.area # prior_area)
        /\ ~dirty_bit'
        /\ prior_area' = outcome'.area
        /\ ~outcome'.computed =>
             UNCHANGED <<edge_layout_x, edge_layout_y, grid_points,
                         prior_area, dirty_bit>>
        /\ (Rendered /\ outcome'.area = outcome.area) =>
             /\ ~outcome'.computed
             /\ outcome'.written = outcome.written
             /\ outcome'.status = outcome.status
             /\ UNCHANGED <<edge_layout_x, edge_layout_y, grid_points,
                            prior_area, dirty_bit>>
    ]_vars

C5_Witness ==
    /\ lastOp = "render_again"
    /\ ~outcome.computed
    /\ outcome.status = "ok"
    /\ outcome.area = prior_area
    /\ outcome.area.width > 0
    /\ Cardinality(outcome.written) > 4
    /\ \E i \in 1..Len(edge_layout_x), j \in 1..Len(edge_layout_y) :
          ~grid_points[i][j].visible

\* C6: render runs to completion for every configuration that new,
\* set_columns, set_rows and add_widget reach, and for every region.
C6_RenderCompletes ==
    Rendered => outcome.status = "ok"

StrictlyIncreasing(t) == \A i \in 1..(Len(t) - 1) : t[i] < t[i + 1]

\* what the claim asks of one axis: the list is the allocation of ds over
\* st and len and, when len >= taken, partitions st..st+len-1
Partitions(t, ds, st, len) ==
    /\ t = LayoutGridDim(ds, st, len).target
    /\ len >= Taken(ds) =>
        /\ StrictlyIncreasing(t)
        /\ Len(t) > 0
        /\ t[1] = st
        /\ t[Len(t)] = st + len - 1

\* C8: after render over a region the x boundaries are the allocation of the
\* column list over x and width, the y boundaries that of the row list over
\* y and height, and each partitions its length when the length is >= taken.
C8_BoundariesPartition ==
    (Rendered /\ outcome.status = "ok") =>
        /\ Partitions(edge_layout_x, columns, outcome.area.x, outcome.area.width)
        /\ Partitions(edge_layout_y, rows, outcome.area.y, outcome.area.height)

====
